---- MODULE Spec2Model ----
(***************************************************************************)
(* The prow "lgtm" plugin: prow/plugins/lgtm/lgtm.go (positional handle)   *)
(* and its struct-based variant (handle taking *state).                    *)
(*                                                                         *)
(* A handler invocation is a straight-line call chain whose only           *)
(* interaction with the world is the sequence of githubClient calls.  Each *)
(* handler is therefore written as an operator of the event and of the     *)
(* results of the client calls made so far (hist); it yields the next      *)
(* client call, or the value the handler returns.  The actions execute the *)
(* calls one at a time against the service state, so that invocations for  *)
(* the same issue interleave at the client calls.                          *)
(***************************************************************************)
EXTENDS Naturals, Sequences, FiniteSets, TLC

VARIABLES
    version,     \* which build is deployed: "positional" (lgtm.go) or "struct"
    issueLabels,     \* service: names of the labels on the issue
    issueAssignees,  \* service: logins assigned to the issue
    inv,         \* per invocation slot: event, client calls made, their results
    initLgtm,    \* whether the issue carried "lgtm" before any event
    lastWrite    \* slot whose AddLabel/RemoveLabel the service applied last (0: none)

vars == <<version, issueLabels, issueAssignees, inv, initLgtm, lastWrite>>

(* ------------------------------ bounds --------------------------------- *)

\* number of invocation slots that may be in flight together
NumProcs == 2

Procs == 1..NumProcs

(* ----------------------------- constants ------------------------------- *)

lgtmLabel == "lgtm"

Nil == "nil"

\* the repository and pull request every event of the model is about
Org == "kubernetes"
RepoName == "test-infra"
TheRepo == [Owner |-> [Login |-> Org], Name |-> RepoName]
ThePR == [Number |-> 5, Author |-> "alice"]
Users == {"alice", "bob"}
OtherLabel == "size/S"

GenericCommentActionCreated == "created"

(* ------------------------------ strings -------------------------------- *)
\* A body is a sequence of lines (the text split at "\n"), a line a
\* sequence of characters.

L_lgtm == <<"/", "l", "g", "t", "m">>
L_LGTMsp == <<"/", "L", "G", "t", "m", " ", "\t">>
L_noissue == <<"/", "l", "g", "t", "m", " ", "n", "o", "-", "i", "s", "s", "u", "e">>
L_cancel == <<"/", "l", "g", "t", "m", " ", "c", "a", "n", "c", "e", "l">>
L_Cancelsp == <<"/", "l", "g", "t", "m", " ", "C", "a", "n", "c", "e", "l", " ">>
L_2sp == <<"/", "l", "g", "t", "m", " ", " ", "c", "a", "n", "c", "e", "l">>
L_lead == <<" ", "/", "l", "g", "t", "m">>
L_more == <<"/", "l", "g", "t", "m", " ", "o", "k">>
L_text == <<"o", "k">>

Bodies ==
    { <<>>, <<L_lgtm>>, <<L_LGTMsp>>, <<L_noissue>>, <<L_cancel>>,
      <<L_text, L_Cancelsp>>, <<L_cancel, L_lgtm>>, <<L_2sp>>, <<L_lead>>,
      <<L_more>>, <<L_text, <<>>>> }

\* (?i): case folding of the letters that occur in the patterns
Fold(c) ==
    CASE c = "L" -> "l" [] c = "G" -> "g" [] c = "T" -> "t" [] c = "M" -> "m"
      [] c = "N" -> "n" [] c = "O" -> "o" [] c = "I" -> "i" [] c = "S" -> "s"
      [] c = "U" -> "u" [] c = "E" -> "e" [] c = "C" -> "c" [] c = "A" -> "a"
      [] OTHER -> c

\* \s within a line
IsSpace(c) == c \in {" ", "\t", "\r", "\f"}

\* LineIs without the \\s*$ anchor: any line that starts with lit
LineIsUnanchored(line, lit) ==
    /\ Len(line) >= Len(lit)
    /\ \A i \in 1..Len(lit) : Fold(line[i]) = lit[i]

\* ^lit\s*$ on one line, case-insensitively
LineIs(line, lit) ==
    /\ Len(line) >= Len(lit)
    /\ \A i \in 1..Len(lit) : Fold(line[i]) = lit[i]
    /\ \A i \in (Len(lit) + 1)..Len(line) : IsSpace(line[i])

\* lgtmRe = (?mi)^/lgtm(?: no-issue)?\s*$
lgtmRe(body) ==
    \E i \in 1..Len(body) : LineIs(body[i], L_lgtm) \/ LineIs(body[i], L_noissue)

\* lgtmCancelRe = (?mi)^/lgtm cancel\s*$
lgtmCancelRe(body) ==
    \E i \in 1..Len(body) : LineIs(body[i], L_cancel)

(* --------------------------- handler results --------------------------- *)

Call(op, args) == [t |-> "call", op |-> op, args |-> args, err |-> Nil]
Return(err) == [t |-> "return", op |-> "", args |-> <<>>, err |-> err]

\* plugins.FormatResponseRaw is not part of these sources: kept as a free
\* constructor of its four arguments.
FormatResponseRaw(body, htmlURL, user, resp) ==
    [body |-> body, url |-> htmlURL, user |-> user, resp |-> resp]

(* ------------------- lgtm.go: positional-argument handler -------------- *)

\* Determine if reviewer is already assigned
isAssignee(assignees, author) ==
    \E i \in 1..Len(assignees) : assignees[i].Login = author

\* assignFailedMsg that does not look at IsMember's error
assignFailedMsgNoErr(org, ok, merr) ==
    IF ~ok
    THEN <<"only ", org, " org members may be assigned issues">>
    ELSE <<"assigning you to the PR failed">>

\* the message chosen after a failed AssignIssue, from IsMember's (ok, merr)
assignFailedMsg(org, ok, merr) ==
    IF merr = Nil /\ ~ok
    THEN <<"only ", org, " org members may be assigned issues">>
    ELSE <<"assigning you to the PR failed">>

\* handle after AssignIssue failed; h: results of the calls made after it
handleAssignFailed(org, repoName, author, number, body, htmlURL, h) ==
    IF Len(h) = 0 THEN Call("IsMember", <<org, author>>)
    ELSE
        LET msg == assignFailedMsg(org, h[1].ok, h[1].err)
            resp == <<"changing LGTM is restricted to assignees, and ">>
                    \o msg \o <<".">>
        IN  IF Len(h) = 1
            THEN Call("CreateComment",
                      <<org, repoName, number,
                        FormatResponseRaw(body, htmlURL, author, resp)>>)
            ELSE Return(h[2].err)

\* hasLGTM starting out true
hasLGTMTrue(labels) == TRUE

hasLGTM(labels) ==
    \E i \in 1..Len(labels) : labels[i].Name = lgtmLabel

\* labelCall that removes on every cancel, whether or not the label is there
labelCallAlways(has, wantLGTM) ==
    IF ~wantLGTM THEN "RemoveLabel"
    ELSE IF ~has THEN "AddLabel"
    ELSE ""

\* labelCall with the two calls exchanged
labelCallSwapped(has, wantLGTM) ==
    IF has /\ ~wantLGTM THEN "AddLabel"
    ELSE IF ~has /\ wantLGTM THEN "RemoveLabel"
    ELSE ""

\* the client call chosen from hasLGTM and wantLGTM ("": none)
labelCall(has, wantLGTM) ==
    IF has /\ ~wantLGTM THEN "RemoveLabel"
    ELSE IF ~has /\ wantLGTM THEN "AddLabel"
    ELSE ""

\* handleLabels that drops the error of AddLabel/RemoveLabel
handleLabelsSwallow(wantLGTM, org, repoName, number, h) ==
    IF Len(h) = 0 THEN Call("GetIssueLabels", <<org, repoName, number>>)
    ELSE
        LET op == labelCall(hasLGTM(h[1].labels), wantLGTM)
        IN  IF op = "" THEN Return(Nil)
            ELSE IF Len(h) = 1 THEN Call(op, <<org, repoName, number, lgtmLabel>>)
            ELSE Return(Nil)

\* Only add the label if it doesn't have it, and vice versa.
\* h: results of the calls from GetIssueLabels on
handleLabels(wantLGTM, org, repoName, number, h) ==
    IF Len(h) = 0 THEN Call("GetIssueLabels", <<org, repoName, number>>)
    ELSE
        LET op == labelCall(hasLGTM(h[1].labels), wantLGTM)
        IN  IF op = "" THEN Return(Nil)
            ELSE IF Len(h) = 1 THEN Call(op, <<org, repoName, number, lgtmLabel>>)
            ELSE Return(h[2].err)

handle(wantLGTM, author, issueAuthor, repo, assignees, number, body, htmlURL, hist) ==
    LET org == repo.Owner.Login
        repoName == repo.Name
    IN  IF ~isAssignee(assignees, author) THEN
            \* Add reviewers as assignee
            IF Len(hist) = 0
            THEN Call("AssignIssue", <<org, repoName, number, <<author>>>>)
            ELSE IF hist[1].err # Nil
            THEN handleAssignFailed(org, repoName, author, number, body, htmlURL,
                                    Tail(hist))
            ELSE handleLabels(wantLGTM, org, repoName, number, Tail(hist))
        ELSE handleLabels(wantLGTM, org, repoName, number, hist)

handleGenericComment(e, hist) ==
    LET author == e.User.Login
        issueAuthor == e.IssueAuthor.Login
        repo == e.Repo
        assignees == e.Assignees
        number == e.Number
        body == e.Body
        htmlURL == e.HTMLURL
    IN  \* Only consider open PRs and new comments.
        IF ~e.IsPR \/ e.IssueState # "open" \/ e.Action # GenericCommentActionCreated
        THEN Return(Nil)
        ELSE IF ~lgtmRe(body) /\ ~lgtmCancelRe(body) THEN Return(Nil)
        ELSE
            LET wantLGTM == lgtmRe(body)
                \* Author cannot LGTM own PR
                isAuthor == author = issueAuthor
            IN  IF isAuthor /\ wantLGTM THEN
                    LET resp == <<"you cannot LGTM your own PR.">>
                    IN  IF Len(hist) = 0
                        THEN Call("CreateComment",
                                  <<repo.Owner.Login, repo.Name, number,
                                    FormatResponseRaw(body, htmlURL, author, resp)>>)
                        ELSE Return(hist[1].err)
                ELSE handle(wantLGTM, author, issueAuthor, repo, assignees, number,
                            body, htmlURL, hist)

handlePullRequestReview(e, hist) ==
    LET author == e.Review.User.Login
        issueAuthor == e.PullRequest.User.Login
        repo == e.Repo
        assignees == e.PullRequest.Assignees
        number == e.PullRequest.Number
        body == e.Review.Body
        htmlURL == e.Review.HTMLURL
    IN  IF e.Review.State = "approve"
        THEN handle(TRUE, author, issueAuthor, repo, assignees, number, body,
                    htmlURL, hist)
        ELSE IF e.Review.State = "changes_requested"
        THEN handle(FALSE, author, issueAuthor, repo, assignees, number, body,
                    htmlURL, hist)
        ELSE Return(Nil)

(* ---------------------- struct-based handler variant ------------------- *)

\* the struct literal with its first two fields exchanged
stateSwapped(f1, f2, f3, f4, f5, f6, f7) ==
    [author |-> f2, issueAuthor |-> f1, repo |-> f3, assignees |-> f4,
     number |-> f5, body |-> f6, htmlURL |-> f7]

\* the positional struct literal &state{...}: fields in declaration order
state(f1, f2, f3, f4, f5, f6, f7) ==
    [author |-> f1, issueAuthor |-> f2, repo |-> f3, assignees |-> f4,
     number |-> f5, body |-> f6, htmlURL |-> f7]

isAssigneeS(pr) ==
    \E i \in 1..Len(pr.assignees) : pr.assignees[i].Login = pr.author

handleAssignFailedS(org, repoName, pr, h) ==
    IF Len(h) = 0 THEN Call("IsMember", <<org, pr.author>>)
    ELSE
        LET ok == h[1].ok
            merr == h[1].err
            msg == IF merr = Nil /\ ~ok
                   THEN <<"only ", org, " org members may be assigned issues">>
                   ELSE <<"assigning you to the PR failed">>
            resp == <<"changing LGTM is restricted to assignees, and ">>
                    \o msg \o <<".">>
        IN  IF Len(h) = 1
            THEN Call("CreateComment",
                      <<org, repoName, pr.number,
                        FormatResponseRaw(pr.body, pr.htmlURL, pr.author, resp)>>)
            ELSE Return(h[2].err)

handleLabelsS(wantLGTM, org, repoName, pr, h) ==
    IF Len(h) = 0 THEN Call("GetIssueLabels", <<org, repoName, pr.number>>)
    ELSE
        LET labels == h[1].labels
            has == \E i \in 1..Len(labels) : labels[i].Name = lgtmLabel
        IN  IF has /\ ~wantLGTM THEN
                IF Len(h) = 1
                THEN Call("RemoveLabel", <<org, repoName, pr.number, lgtmLabel>>)
                ELSE Return(h[2].err)
            ELSE IF ~has /\ wantLGTM THEN
                IF Len(h) = 1
                THEN Call("AddLabel", <<org, repoName, pr.number, lgtmLabel>>)
                ELSE Return(h[2].err)
            ELSE Return(Nil)

handleS(wantLGTM, hist, pr) ==
    LET org == pr.repo.Owner.Login
        repoName == pr.repo.Name
    IN  IF ~isAssigneeS(pr) THEN
            IF Len(hist) = 0
            THEN Call("AssignIssue", <<org, repoName, pr.number, <<pr.author>>>>)
            ELSE IF hist[1].err # Nil
            THEN handleAssignFailedS(org, repoName, pr, Tail(hist))
            ELSE handleLabelsS(wantLGTM, org, repoName, pr, Tail(hist))
        ELSE handleLabelsS(wantLGTM, org, repoName, pr, hist)

handleGenericCommentS(e, hist) ==
    LET author == e.User.Login
        issueAuthor == e.IssueAuthor.Login
        repo == e.Repo
        assignees == e.Assignees
        number == e.Number
        body == e.Body
        htmlURL == e.HTMLURL
    IN  IF ~e.IsPR \/ e.IssueState # "open" \/ e.Action # GenericCommentActionCreated
        THEN Return(Nil)
        ELSE IF lgtmRe(body) THEN
            \* wantLGTM = true
            IF author = issueAuthor THEN
                LET resp == <<"you cannot LGTM your own PR.">>
                IN  IF Len(hist) = 0
                    THEN Call("CreateComment",
                              <<repo.Owner.Login, repo.Name, number,
                                FormatResponseRaw(body, htmlURL, author, resp)>>)
                    ELSE Return(hist[1].err)
            ELSE handleS(TRUE, hist,
                         state(author, issueAuthor, repo, assignees, number, body,
                               htmlURL))
        ELSE IF lgtmCancelRe(body) THEN
            handleS(FALSE, hist,
                    state(author, issueAuthor, repo, assignees, number, body,
                          htmlURL))
        ELSE Return(Nil)

handlePullRequestReviewS(e, hist) ==
    LET pr == [author |-> e.Review.User.Login,
               issueAuthor |-> e.PullRequest.User.Login,
               repo |-> e.Repo,
               assignees |-> e.PullRequest.Assignees,
               number |-> e.PullRequest.Number,
               body |-> e.Review.Body,
               htmlURL |-> e.Review.HTMLURL]
    IN  IF e.Review.State = "approve" THEN handleS(TRUE, hist, pr)
        ELSE IF e.Review.State = "changes_requested" THEN handleS(FALSE, hist, pr)
        ELSE Return(Nil)

(* ------------------------------- events -------------------------------- *)

NoEvent == [kind |-> "none"]

\* github.GenericCommentEvent, the fields handleGenericComment reads
CommentEvent(user, isPR, issueState, action, body, asg) ==
    [kind |-> "comment",
     User |-> [Login |-> user],
     IssueAuthor |-> [Login |-> ThePR.Author],
     Repo |-> TheRepo,
     Assignees |-> asg,
     Number |-> ThePR.Number,
     Body |-> body,
     HTMLURL |-> "comment-url",
     IsPR |-> isPR,
     IssueState |-> issueState,
     Action |-> action]

\* github.ReviewEvent, the fields handlePullRequestReview reads
ReviewEvent(user, reviewState, asg) ==
    [kind |-> "review",
     Review |-> [User |-> [Login |-> user], Body |-> <<L_text>>,
                 HTMLURL |-> "review-url", State |-> reviewState],
     PullRequest |-> [User |-> [Login |-> ThePR.Author], Assignees |-> asg,
                      Number |-> ThePR.Number],
     Repo |-> TheRepo]

IssueStates == {"open", "closed"}
CommentActions == {"created", "edited"}
ReviewStates == {"approve", "changes_requested", "comment"}

RECURSIVE SetToSeq(_)
SetToSeq(S) ==
    IF S = {} THEN <<>>
    ELSE LET x == CHOOSE y \in S : TRUE IN <<x>> \o SetToSeq(S \ {x})

\* the assignee list a webhook payload carries: the issue's assignees then
AssigneeList == [i \in 1..Cardinality(issueAssignees) |->
                    [Login |-> SetToSeq(issueAssignees)[i]]]

\* what GetIssueLabels returns on success
LabelList == [i \in 1..Cardinality(issueLabels) |->
                 [Name |-> SetToSeq(issueLabels)[i]]]

(* ------------------------ dispatch and invocations --------------------- *)

\* init(): both handlers are registered under the plugin's name
Handler(e, hist) ==
    IF version = "positional" THEN
        IF e.kind = "comment" THEN handleGenericComment(e, hist)
        ELSE handlePullRequestReview(e, hist)
    ELSE
        IF e.kind = "comment" THEN handleGenericCommentS(e, hist)
        ELSE handlePullRequestReviewS(e, hist)

Idle(p) == inv[p].e.kind = "none"
NextStep(p) == Handler(inv[p].e, inv[p].hist)
Running(p) == ~Idle(p) /\ NextStep(p).t = "call"
Done(p) == ~Idle(p) /\ NextStep(p).t = "return"
\* the value a finished invocation returned
Ret(p) == NextStep(p).err

Calling(p, op) == Running(p) /\ NextStep(p).op = op

Result(err, ok, labels) == [err |-> err, ok |-> ok, labels |-> labels]
\* the error a failed client call returns, named after the call
Err(op, ok) == IF ok THEN Nil ELSE op

Record(p, res) ==
    inv' = [inv EXCEPT ![p] = [e |-> @.e,
                               calls |-> Append(@.calls, NextStep(p)),
                               hist |-> Append(@.hist, res)]]

Deliver(p, e) ==
    /\ inv' = [inv EXCEPT ![p] = [e |-> e, calls |-> <<>>, hist |-> <<>>]]
    /\ UNCHANGED <<version, issueLabels, issueAssignees, initLgtm, lastWrite>>

(* ------------------------------- actions ------------------------------- *)

GenericComment(p, user, isPR, issueState, action, body) ==
    Deliver(p, CommentEvent(user, isPR, issueState, action, body, AssigneeList))

PullRequestReview(p, user, reviewState) ==
    Deliver(p, ReviewEvent(user, reviewState, AssigneeList))

AssignIssue(p, ok) ==
    /\ Calling(p, "AssignIssue")
    /\ issueAssignees' = IF ok
                         THEN issueAssignees \cup
                              {NextStep(p).args[4][i] : i \in 1..Len(NextStep(p).args[4])}
                         ELSE issueAssignees
    /\ Record(p, Result(Err("AssignIssue", ok), FALSE, <<>>))
    /\ UNCHANGED <<version, issueLabels, initLgtm, lastWrite>>

IsMember(p, ok, member) ==
    /\ Calling(p, "IsMember")
    /\ Record(p, Result(Err("IsMember", ok), member, <<>>))
    /\ UNCHANGED <<version, issueLabels, issueAssignees, initLgtm, lastWrite>>

CreateComment(p, ok) ==
    /\ Calling(p, "CreateComment")
    /\ Record(p, Result(Err("CreateComment", ok), FALSE, <<>>))
    /\ UNCHANGED <<version, issueLabels, issueAssignees, initLgtm, lastWrite>>

GetIssueLabels(p, ok) ==
    /\ Calling(p, "GetIssueLabels")
    /\ Record(p, Result(Err("GetIssueLabels", ok), FALSE,
                        IF ok THEN LabelList ELSE <<>>))
    /\ UNCHANGED <<version, issueLabels, issueAssignees, initLgtm, lastWrite>>

AddLabel(p, ok) ==
    /\ Calling(p, "AddLabel")
    /\ issueLabels' = IF ok THEN issueLabels \cup {NextStep(p).args[4]}
                      ELSE issueLabels
    /\ lastWrite' = IF ok THEN p ELSE lastWrite
    /\ Record(p, Result(Err("AddLabel", ok), FALSE, <<>>))
    /\ UNCHANGED <<version, issueAssignees, initLgtm>>

RemoveLabel(p, ok) ==
    /\ Calling(p, "RemoveLabel")
    /\ issueLabels' = IF ok THEN issueLabels \ {NextStep(p).args[4]}
                      ELSE issueLabels
    /\ lastWrite' = IF ok THEN p ELSE lastWrite
    /\ Record(p, Result(Err("RemoveLabel", ok), FALSE, <<>>))
    /\ UNCHANGED <<version, issueAssignees, initLgtm>>

\* the handler's return value goes back to the dispatcher and the
\* invocation's frame is gone
Finish(p) ==
    /\ Done(p)
    /\ inv' = [inv EXCEPT ![p] = [e |-> NoEvent, calls |-> <<>>, hist |-> <<>>]]
    /\ UNCHANGED <<version, issueLabels, issueAssignees, initLgtm, lastWrite>>

(* ---------------------------- specifications --------------------------- *)

Init ==
    /\ version \in {"positional", "struct"}
    /\ issueLabels \in {{OtherLabel}, {OtherLabel, lgtmLabel}}
    /\ issueAssignees \in SUBSET Users
    /\ inv = [p \in Procs |-> [e |-> NoEvent, calls |-> <<>>, hist |-> <<>>]]
    /\ initLgtm = (lgtmLabel \in issueLabels)
    /\ lastWrite = 0

\* Events for the issue are handled one at a time, by slot 1; any client
\* call may fail.
Next ==
    \/ \E user \in Users, isPR \in BOOLEAN, st \in IssueStates,
          act \in CommentActions, body \in Bodies :
            Idle(1) /\ GenericComment(1, user, isPR, st, act, body)
    \/ \E user \in Users, st \in ReviewStates :
            Idle(1) /\ PullRequestReview(1, user, st)
    \/ \E ok \in BOOLEAN : AssignIssue(1, ok)
    \/ \E ok \in BOOLEAN, member \in BOOLEAN : IsMember(1, ok, member)
    \/ \E ok \in BOOLEAN : CreateComment(1, ok)
    \/ \E ok \in BOOLEAN : GetIssueLabels(1, ok)
    \/ \E ok \in BOOLEAN : AddLabel(1, ok)
    \/ \E ok \in BOOLEAN : RemoveLabel(1, ok)
    \/ Finish(1)

Spec == Init /\ [][Next]_vars

\* Every slot handles one event; the invocations run concurrently and no
\* client call fails.  Slots are taken in order (their numbering carries no
\* meaning) and the issue starts without assignees, so that both the
\* assigning and the already-assigned paths are taken.
ConcBodies == {<<L_lgtm>>, <<L_cancel>>}
ConcReviewStates == {"approve", "changes_requested"}

InitConc ==
    /\ Init
    /\ issueAssignees = {}

NextFree(p) == Idle(p) /\ \A q \in Procs : q < p => ~Idle(q)

NextConc ==
    \E p \in Procs :
        \/ \E user \in Users, body \in ConcBodies :
                NextFree(p) /\ GenericComment(p, user, TRUE, "open", "created", body)
        \/ \E user \in Users, st \in ConcReviewStates :
                NextFree(p) /\ PullRequestReview(p, user, st)
        \/ AssignIssue(p, TRUE)
        \/ CreateComment(p, TRUE)
        \/ GetIssueLabels(p, TRUE)
        \/ AddLabel(p, TRUE)
        \/ RemoveLabel(p, TRUE)

SpecConc == InitConc /\ [][NextConc]_vars

(* ------------------------- vocabulary of the claims -------------------- *)

\* how often invocation p has called op
Count(p, op) ==
    Cardinality({i \in 1..Len(inv[p].calls) : inv[p].calls[i].op = op})

\* op was called by p and that call failed
Failed(p, op) ==
    \E i \in 1..Len(inv[p].hist) :
        inv[p].calls[i].op = op /\ inv[p].hist[i].err # Nil

\* op was called by p and that call succeeded
Succeeded(p, op) ==
    \E i \in 1..Len(inv[p].hist) :
        inv[p].calls[i].op = op /\ inv[p].hist[i].err = Nil

\* the result of p's call of op
ResultOf(p, op) ==
    inv[p].hist[CHOOSE i \in 1..Len(inv[p].hist) : inv[p].calls[i].op = op]

\* the text of the comment p posted
CommentOf(p) ==
    inv[p].calls[CHOOSE i \in 1..Len(inv[p].calls) :
                    inv[p].calls[i].op = "CreateComment"].args[4]

Contains(text, fragment) == \E i \in 1..Len(text) : text[i] = fragment

\* The lines of Bodies that are a "/lgtm" or "/lgtm no-issue" line, and those
\* that are a "/lgtm cancel" line, up to case and trailing blanks.
LgtmLines == {L_lgtm, L_LGTMsp, L_noissue}
CancelLines == {L_cancel, L_Cancelsp}
BodyHasLgtm(body) == \E i \in 1..Len(body) : body[i] \in LgtmLines
BodyHasCancel(body) == \E i \in 1..Len(body) : body[i] \in CancelLines

Actor(e) == IF e.kind = "comment" THEN e.User.Login ELSE e.Review.User.Login
EventAssignees(e) ==
    LET l == IF e.kind = "comment" THEN e.Assignees ELSE e.PullRequest.Assignees
    IN  {l[i].Login : i \in 1..Len(l)}

\* the event passes the comment filter and carries an intent
HasIntent(e) ==
    IF e.kind = "comment"
    THEN /\ e.IsPR /\ e.IssueState = "open" /\ e.Action = "created"
         /\ (BodyHasLgtm(e.Body) \/ BodyHasCancel(e.Body))
    ELSE e.kind = "review" /\ e.Review.State \in {"approve", "changes_requested"}

\* the intent of an event that has one
Want(e) ==
    IF e.kind = "comment" THEN BodyHasLgtm(e.Body) ELSE e.Review.State = "approve"

SelfApproval(e) == HasIntent(e) /\ Want(e) /\ Actor(e) = ThePR.Author

HasL == lgtmLabel \in issueLabels

(* -------------------------------- claims ------------------------------- *)

\* C1: whenever an event with intent want-label = true comes from the pull
\* request's author (a "/lgtm" comment or an "approve" review), the handler
\* makes exactly one createComment call, whose text says "you cannot LGTM
\* your own PR.", and no assignIssue, addLabel or removeLabel call.
C1_SelfApprovalGuard ==
    \A p \in Procs :
        (~Idle(p) /\ SelfApproval(inv[p].e)) =>
            /\ Count(p, "AssignIssue") = 0
            /\ Count(p, "AddLabel") = 0
            /\ Count(p, "RemoveLabel") = 0
            /\ Done(p) =>
                  /\ Count(p, "CreateComment") = 1
                  /\ Contains(CommentOf(p).resp, "you cannot LGTM your own PR.")

\* C2: in a finished invocation whose getIssueLabels query succeeded (the
\* actor was an assignee of the event, or the one assignIssue call naming
\* only the actor succeeded), with hasLabel = "lgtm" is among the returned
\* labels: hasLabel and not want => removeLabel("lgtm") exactly once and no
\* addLabel; not hasLabel and want => addLabel("lgtm") exactly once and no
\* removeLabel; otherwise neither, and the handler returns success.  No
\* invocation calls both addLabel and removeLabel.
C2_LabelDecision ==
    \A p \in Procs :
        /\ ~Idle(p) => ~(Count(p, "AddLabel") > 0 /\ Count(p, "RemoveLabel") > 0)
        /\ (~Idle(p) /\ Count(p, "GetIssueLabels") > 0) =>
              \/ Actor(inv[p].e) \in EventAssignees(inv[p].e)
              \/ /\ Count(p, "AssignIssue") = 1
                 /\ Succeeded(p, "AssignIssue")
                 /\ inv[p].calls[1].args[4] = <<Actor(inv[p].e)>>
        /\ (Done(p) /\ Succeeded(p, "GetIssueLabels")) =>
              LET got == ResultOf(p, "GetIssueLabels").labels
                  hasLabel == \E i \in 1..Len(got) : got[i].Name = "lgtm"
                  want == Want(inv[p].e)
                  last == inv[p].calls[Len(inv[p].calls)]
              IN  /\ (hasLabel /\ ~want) =>
                        /\ Count(p, "RemoveLabel") = 1
                        /\ Count(p, "AddLabel") = 0
                        /\ last.op = "RemoveLabel" /\ last.args[4] = "lgtm"
                  /\ (~hasLabel /\ want) =>
                        /\ Count(p, "AddLabel") = 1
                        /\ Count(p, "RemoveLabel") = 0
                        /\ last.op = "AddLabel" /\ last.args[4] = "lgtm"
                  /\ (hasLabel = want) =>
                        /\ Count(p, "AddLabel") = 0
                        /\ Count(p, "RemoveLabel") = 0
                        /\ Ret(p) = Nil

\* a cancel by a freshly assigned reviewer removed the label that was there
C2_Witness ==
    /\ Done(1)
    /\ Succeeded(1, "AssignIssue")
    /\ Succeeded(1, "GetIssueLabels")
    /\ ~Want(inv[1].e)
    /\ Count(1, "RemoveLabel") = 1
    /\ Ret(1) = Nil

\* C3: when the actor is not among the event's assignees and assignIssue
\* fails, the handler makes exactly one createComment call and no
\* getIssueLabels, addLabel or removeLabel call; the comment names the
\* organization ("only <org> org members may be assigned issues") exactly
\* when isOrgMember succeeds and reports not-a-member, and otherwise says
\* "assigning you to the PR failed".
C3_AssignmentFailure ==
    \A p \in Procs :
        (~Idle(p) /\ Failed(p, "AssignIssue")) =>
            /\ Actor(inv[p].e) \notin EventAssignees(inv[p].e)
            /\ Count(p, "GetIssueLabels") = 0
            /\ Count(p, "AddLabel") = 0
            /\ Count(p, "RemoveLabel") = 0
            /\ Done(p) =>
                  LET resp == CommentOf(p).resp
                      nonMember == /\ Succeeded(p, "IsMember")
                                   /\ ~ResultOf(p, "IsMember").ok
                  IN  /\ Count(p, "CreateComment") = 1
                      /\ Count(p, "IsMember") = 1
                      /\ Contains(resp, Org) <=> nonMember
                      /\ Contains(resp, "assigning you to the PR failed") <=> ~nonMember
                      /\ nonMember =>
                            /\ Contains(resp, "only ")
                            /\ Contains(resp, " org members may be assigned issues")

\* the assignment failed, the membership query reported a non-member, and the
\* reply naming the organization was posted
C3_Witness ==
    /\ Done(1)
    /\ Failed(1, "AssignIssue")
    /\ Succeeded(1, "IsMember")
    /\ ~ResultOf(1, "IsMember").ok
    /\ Count(1, "CreateComment") = 1
    /\ Contains(CommentOf(1).resp, Org)

\* C4: a "/lgtm cancel" comment by the pull request's author on an open pull
\* request that carries "lgtm" always leads to a removeLabel("lgtm") call
\* (here: whenever the label query does not fail), whether or not the author
\* is an assignee or an organization member.
C4_AuthorMayRetract ==
    \A p \in Procs :
        ( /\ Done(p)
          /\ inv[p].e.kind = "comment"
          /\ HasIntent(inv[p].e) /\ ~Want(inv[p].e)
          /\ Actor(inv[p].e) = ThePR.Author
          /\ ~Failed(p, "GetIssueLabels")
          /\ HasL ) =>
            Count(p, "RemoveLabel") = 1

\* C5: an event without intent (a comment not on a pull request, not on an
\* open one, not newly created, or without a "/lgtm", "/lgtm no-issue" or
\* "/lgtm cancel" line; a review neither "approve" nor "changes_requested")
\* causes no client call, and the handler returns success.
C5_NoIntentNoEffect ==
    \A p \in Procs :
        (~Idle(p) /\ ~HasIntent(inv[p].e)) =>
            /\ inv[p].calls = <<>>
            /\ Done(p)
            /\ Ret(p) = Nil

\* a new comment on an open pull request whose only line starts with "/lgtm"
\* but goes on was handled
C5_Witness ==
    /\ Done(1)
    /\ inv[1].e.kind = "comment"
    /\ inv[1].e.IsPR /\ inv[1].e.IssueState = "open" /\ inv[1].e.Action = "created"
    /\ inv[1].e.Body = <<L_more>>
    /\ inv[1].calls = <<>>

MutatingCalls == {"AssignIssue", "AddLabel", "RemoveLabel", "CreateComment"}
ClientCalls == MutatingCalls \cup {"IsMember", "GetIssueLabels"}

\* C6 as stated: a finished invocation in which assignIssue, addLabel,
\* removeLabel or createComment failed has returned an error, and no call
\* is made twice.
C6_MutatingFailuresPropagated ==
    \A p \in Procs :
        /\ ~Idle(p) => \A op \in MutatingCalls : Count(p, op) <= 1
        /\ (Done(p) /\ \E op \in MutatingCalls : Failed(p, op)) => Ret(p) # Nil

\* C6, amended: a failed addLabel, removeLabel or createComment call is the
\* last call of the invocation and its error is what the handler returns; a
\* failed assignIssue is answered with the reply comment, and the handler
\* returns that createComment call's result (success when the comment was
\* posted); no client call is made twice in one invocation.
C6_FailuresPropagatedButAssign ==
    \A p \in Procs :
        /\ ~Idle(p) => \A op \in ClientCalls : Count(p, op) <= 1
        /\ \A op \in {"AddLabel", "RemoveLabel", "CreateComment"} :
              (~Idle(p) /\ Failed(p, op)) =>
                  /\ Done(p)
                  /\ inv[p].calls[Len(inv[p].calls)].op = op
                  /\ Ret(p) = op
        /\ (Done(p) /\ Failed(p, "AssignIssue")) =>
              /\ Count(p, "CreateComment") = 1
              /\ Ret(p) = ResultOf(p, "CreateComment").err

\* addLabel failed and the handler returned its error
C6_Witness ==
    /\ Done(1)
    /\ Failed(1, "AddLabel")
    /\ Ret(1) = "AddLabel"

\* C7: when getIssueLabels fails, its error is not what the handler
\* returns and the handler goes on as if the label were absent: with want =
\* true addLabel("lgtm") is called exactly once (and its result returned),
\* with want = false neither addLabel nor removeLabel is called and the
\* handler returns success.
C7_FailOpenLabelQuery ==
    \A p \in Procs :
        (Done(p) /\ Failed(p, "GetIssueLabels")) =>
            /\ Ret(p) # "GetIssueLabels"
            /\ Count(p, "RemoveLabel") = 0
            /\ Want(inv[p].e) =>
                  /\ Count(p, "AddLabel") = 1
                  /\ inv[p].calls[Len(inv[p].calls)].args[4] = "lgtm"
                  /\ Ret(p) = ResultOf(p, "AddLabel").err
            /\ ~Want(inv[p].e) =>
                  /\ Count(p, "AddLabel") = 0
                  /\ Ret(p) = Nil

\* the query failed on an issue that carried the label all along, and
\* addLabel was called all the same
C7_Witness ==
    /\ Done(1)
    /\ Failed(1, "GetIssueLabels")
    /\ Want(inv[1].e)
    /\ Count(1, "AddLabel") = 1
    /\ initLgtm /\ HasL
    /\ lastWrite = 0

\* the guards of C8: the comment filter and the self-approval guard (with no
\* failing call the assignment always succeeds)
PassesGuards(e) == HasIntent(e) /\ ~SelfApproval(e)

\* C8: with events handled one at a time, a step of an invocation none of
\* whose client calls failed changes the presence of "lgtm" only for an
\* event that passes the guards, and only to that event's intent.
C8_LabelStateMachine ==
    [][ (HasL' # HasL /\ \A op \in ClientCalls : ~Failed(1, op)') =>
            (PassesGuards(inv[1].e) /\ Want(inv[1].e) = HasL') ]_vars

\* the issue's labels after the handler has handled e alone, from labels L,
\* every client call succeeding
RECURSIVE RunAlone(_, _, _)
RunAlone(e, hist, L) ==
    LET s == Handler(e, hist)
        ok == Result(Nil, FALSE, <<>>)
    IN  IF s.t = "return" THEN L
        ELSE IF s.op = "GetIssueLabels"
        THEN RunAlone(e, Append(hist, Result(Nil, FALSE,
                          [i \in 1..Cardinality(L) |-> [Name |-> SetToSeq(L)[i]]])), L)
        ELSE IF s.op = "AddLabel" THEN RunAlone(e, Append(hist, ok), L \cup {s.args[4]})
        ELSE IF s.op = "RemoveLabel" THEN RunAlone(e, Append(hist, ok), L \ {s.args[4]})
        ELSE RunAlone(e, Append(hist, ok), L)

\* the labels after the invocations of the slots in `order`, one at a time
RECURSIVE RunInOrder(_, _)
RunInOrder(order, L) ==
    IF Len(order) = 0 THEN L
    ELSE RunInOrder(Tail(order), RunAlone(inv[order[1]].e, <<>>, L))

Used == {p \in Procs : ~Idle(p)}
Orders == {o \in [1..Cardinality(Used) -> Used] :
              \A i, j \in 1..Cardinality(Used) : o[i] = o[j] => i = j}
InitLabels == IF initLgtm THEN {OtherLabel, lgtmLabel} ELSE {OtherLabel}
Quiescent == \A p \in Procs : ~Running(p)

\* C9: once concurrent invocations for the issue have all returned (no
\* client call failing), "lgtm" is present exactly when the invocation whose
\* addLabel/removeLabel the service applied last wanted it (as before the
\* events when no invocation issued one), and some one-at-a-time order of
\* the same invocations ends with the same label state.
C9_LastWriteWins ==
    Quiescent =>
        /\ lastWrite = 0 => HasL = initLgtm
        /\ lastWrite # 0 => HasL = Want(inv[lastWrite].e)
        /\ \E o \in Orders : (lgtmLabel \in RunInOrder(o, InitLabels)) = HasL

\* two invocations have each issued addLabel("lgtm") for the issue
C9_Witness ==
    /\ Quiescent
    /\ Count(1, "AddLabel") = 1
    /\ Count(2, "AddLabel") = 1
    /\ HasL

\* C10: at every point of every invocation (every event, every pattern of
\* client-call results so far) the positional-argument handler and the
\* struct-based handler take the same next step: the same client call with
\* the same arguments, or the same return value.  By induction on the calls
\* made, the two issue the same sequence of calls and return the same result.
C10_HandlersAgree ==
    \A p \in Procs :
        ~Idle(p) =>
            IF inv[p].e.kind = "comment"
            THEN handleGenericComment(inv[p].e, inv[p].hist)
                     = handleGenericCommentS(inv[p].e, inv[p].hist)
            ELSE handlePullRequestReview(inv[p].e, inv[p].hist)
                     = handlePullRequestReviewS(inv[p].e, inv[p].hist)

\* a comment by a reviewer who was not yet an assignee went through
\* assignIssue, getIssueLabels and addLabel
C10_Witness ==
    /\ Done(1)
    /\ inv[1].e.kind = "comment"
    /\ Len(inv[1].calls) = 3
    /\ Count(1, "AddLabel") = 1

====
